---- MODULE Spec2Model ----
(***************************************************************************)
(* Model of the Foreman orchestrator (polling variant): the pure state     *)
(* machine nextState, the verdict parser parseArbiterVerdict, and the      *)
(* Foreman class with its run loop, session lifecycle and cleanup.         *)
(*                                                                         *)
(* A text is a sequence of one-character strings.  The steps of run() are  *)
(* the stretches of code between two awaits: JavaScript runs each of them  *)
(* to completion before any other caller's code can run.                   *)
(***************************************************************************)
EXTENDS Integers, Sequences, FiniteSets, TLC

(***************************************************************************)
(* Bounds of the model.                                                    *)
(***************************************************************************)
\* config.max_iterations is drawn from 1..MaxIterationsBound
MaxIterationsBound == 2
\* busy/retry polls a session may answer before the wall clock is past the timeout
MaxBusyPolls == 1
\* concurrent callers of run() on the one orchestrator
NumCallers == 2
\* iteration / maxIterations arguments tried on nextState: 1..MaxArg
MaxArg == 3
\* consecutive applications of nextState that are counted
MaxApply == 2
\* fragments concatenated into an arbiter text
MaxFrags == 3

(***************************************************************************)
(* Enumerations (types.ts).                                                *)
(***************************************************************************)
Idle == "Idle"
Developing == "Developing"
Reviewing == "Reviewing"
Arbitrating == "Arbitrating"
Complete == "Complete"
Failed == "Failed"
ForemanState == {Idle, Developing, Reviewing, Arbitrating, Complete, Failed}

Pass == "Pass"
NeedsWork == "NeedsWork"
ArbiterVerdict == {Pass, NeedsWork}

Developer == "Developer"
Reviewer == "Reviewer"
Arbiter == "Arbiter"
Role == {Developer, Reviewer, Arbiter}

ForemanEvent ==
  {"startDeveloping", "developmentComplete", "reviewComplete", "verdict", "error"}

\* an omitted optional argument (verdict?, iteration?, maxIterations?)
Undefined == "undefined"
UndefinedNum == -1
\* the Error thrown by nextState for an invalid transition
Thrown == "Invalid state transition"

(***************************************************************************)
(* nextState: one operator per case of the switch, then the switch.        *)
(***************************************************************************)
nextState_Idle(event) ==
  IF event = "startDeveloping" THEN Developing ELSE Thrown

\* a faulty variant of the Developing case: the review is skipped
nextState_Developing_SkipsReview(event) ==
  IF event = "developmentComplete" THEN Arbitrating
  ELSE IF event = "error" THEN Failed
  ELSE Thrown

nextState_Developing(event) ==
  IF event = "developmentComplete" THEN Reviewing
  ELSE IF event = "error" THEN Failed
  ELSE Thrown

nextState_Reviewing(event) ==
  IF event = "reviewComplete" THEN Arbitrating
  ELSE IF event = "error" THEN Failed
  ELSE Thrown

\* a faulty variant of the ceiling test: '>' for '>='
nextState_NeedsWork_OffByOne(iteration, maxIterations) ==
  LET iter == IF iteration = UndefinedNum THEN 1 ELSE iteration
      max == IF maxIterations = UndefinedNum THEN 3 ELSE maxIterations
  IN  IF iter > max THEN Complete ELSE Developing

nextState_NeedsWork(iteration, maxIterations) ==
  LET iter == IF iteration = UndefinedNum THEN 1 ELSE iteration
      max == IF maxIterations = UndefinedNum THEN 3 ELSE maxIterations
  IN  IF iter >= max THEN Complete ELSE Developing

\* a faulty variant of the Pass row: Pass is subject to the ceiling test too
nextState_Arbitrating_PassLoops(event, verdict, iteration, maxIterations) ==
  IF event = "verdict" /\ verdict \in ArbiterVerdict
    THEN nextState_NeedsWork(iteration, maxIterations)
  ELSE IF event = "error" THEN Failed
  ELSE Thrown

nextState_Arbitrating(event, verdict, iteration, maxIterations) ==
  IF event = "verdict" /\ verdict = Pass THEN Complete
  ELSE IF event = "verdict" /\ verdict = NeedsWork
    THEN nextState_NeedsWork(iteration, maxIterations)
  ELSE IF event = "error" THEN Failed
  ELSE Thrown

\* a faulty variant of the terminal case: Complete takes error like the other states
nextState_Complete_TakesError(event) ==
  IF event = "error" THEN Failed ELSE Thrown

nextState_Complete(event) ==
  Thrown

\* a faulty variant of the Failed case: every event is swallowed, not only error
nextState_Failed_Swallows(event) ==
  Failed

nextState_Failed(event) ==
  IF event = "error" THEN Failed ELSE Thrown

nextState(current, event, verdict, iteration, maxIterations) ==
  CASE current = Idle -> nextState_Idle(event)
    [] current = Developing -> nextState_Developing(event)
    [] current = Reviewing -> nextState_Reviewing(event)
    [] current = Arbitrating ->
         nextState_Arbitrating(event, verdict, iteration, maxIterations)
    [] current = Complete -> nextState_Complete(event)
    [] current = Failed -> nextState_Failed(event)

(***************************************************************************)
(* Texts and String.prototype.toUpperCase / includes on them.              *)
(***************************************************************************)
LowerLetters ==
  <<"a", "c", "d", "e", "f", "i", "k", "m", "n", "o",
    "p", "r", "s", "t", "u", "w", "y">>
UpperLetters ==
  <<"A", "C", "D", "E", "F", "I", "K", "M", "N", "O",
    "P", "R", "S", "T", "U", "W", "Y">>

toUpperCaseChar(ch) ==
  IF \E i \in 1..Len(LowerLetters) : LowerLetters[i] = ch
    THEN UpperLetters[CHOOSE i \in 1..Len(LowerLetters) : LowerLetters[i] = ch]
    ELSE ch

toUpperCase(text) ==
  [i \in 1..Len(text) |-> toUpperCaseChar(text[i])]

includes(text, pattern) ==
  \E i \in 0..(Len(text) - Len(pattern)) :
    \A j \in 1..Len(pattern) : text[i + j] = pattern[j]

NEEDS_WORK == <<"N", "E", "E", "D", "S", "_", "W", "O", "R", "K">>
PASS == <<"P", "A", "S", "S">>

\* a faulty variant of the parser: the pass marker is looked for first
parseArbiterVerdict_PassFirst(lastAssistantText) ==
  LET upper == toUpperCase(lastAssistantText)
  IN  IF includes(upper, PASS) THEN Pass
      ELSE NeedsWork

parseArbiterVerdict(lastAssistantText) ==
  LET upper == toUpperCase(lastAssistantText)
  IN  IF includes(upper, NEEDS_WORK) THEN NeedsWork
      ELSE IF includes(upper, PASS) THEN Pass
      ELSE NeedsWork

(***************************************************************************)
(* detectAndAutoAnswer: the two regular expressions, by what they match.   *)
(***************************************************************************)
IsDigit(ch) == ch \in {"0", "1", "2", "3", "4", "5", "6", "7", "8", "9"}
IsSpace(ch) == ch \in {" ", "\n", "\t"}

\* the first position from p on that holds no digit (Len + 1: there is none)
DigitRunEnd(text, p) ==
  LET S == {q \in p..(Len(text) + 1) : q = Len(text) + 1 \/ ~IsDigit(text[q])}
  IN  CHOOSE q \in S : \A r \in S : q <= r

\* the first position from p on that holds no white space (Len + 1: there is none)
SpaceRunEnd(text, p) ==
  LET S == {q \in p..(Len(text) + 1) : q = Len(text) + 1 \/ ~IsSpace(text[q])}
  IN  CHOOSE q \in S : \A r \in S : q <= r

\* /(\d+)[).]\s+\S/ anchored at p: the position of its last character, 0 if no match
numberedMatchAt(text, p) ==
  IF p > Len(text) \/ ~IsDigit(text[p]) THEN 0
  ELSE LET q == DigitRunEnd(text, p)
       IN  IF q > Len(text) \/ text[q] \notin {")", "."} THEN 0
           ELSE IF q + 1 > Len(text) \/ ~IsSpace(text[q + 1]) THEN 0
           ELSE LET r == SpaceRunEnd(text, q + 1)
                IN  IF r > Len(text) THEN 0 ELSE r

\* [...text.matchAll(numberedPattern)]: the captured numbers, in text order
RECURSIVE matchAll(_, _)
matchAll(text, from) ==
  LET starts == {p \in from..Len(text) : numberedMatchAt(text, p) # 0}
  IN  IF starts = {} THEN <<>>
      ELSE LET p == CHOOSE x \in starts : \A y \in starts : x <= y
               q == DigitRunEnd(text, p)
           IN  <<SubSeq(text, p, q - 1)>> \o matchAll(text, numberedMatchAt(text, p) + 1)

ConfirmWords ==
  { <<"P", "R", "O", "C", "E", "E", "D", "?">>,
    <<"C", "O", "N", "F", "I", "R", "M", "?">>,
    <<"C", "O", "N", "T", "I", "N", "U", "E", "?">>,
    <<"R", "E", "A", "D", "Y", "?">>,
    <<"C", "O", "R", "R", "E", "C", "T", "?">> }

\* /\?\s*(?:\(y\/n\))?[\s]*$|proceed\?|confirm\?|continue\?|ready\?|correct\?/i
confirmPattern(text) ==
  \/ \E p \in 1..Len(text) :
       /\ text[p] = "?"
       /\ LET rest == SubSeq(text, p + 1, Len(text))
              a == SpaceRunEnd(rest, 1)
          IN  \/ a > Len(rest)
              \/ /\ a + 4 <= Len(rest)
                 /\ toUpperCase(SubSeq(rest, a, a + 4)) = <<"(", "Y", "/", "N", ")">>
                 /\ SpaceRunEnd(rest, a + 5) > Len(rest)
  \/ \E w \in ConfirmWords : includes(toUpperCase(text), w)

\* a faulty variant of the detector: the yes/no patterns are tried first
detectAndAutoAnswer_ConfirmFirst(lastMessage) ==
  IF lastMessage = <<>> THEN <<>>
  ELSE LET matches == matchAll(lastMessage, 1)
       IN  IF confirmPattern(lastMessage) THEN <<"y">>
           ELSE IF Len(matches) >= 2 THEN matches[Len(matches)]
           ELSE <<>>

\* a faulty variant of the detector: the first option is answered
detectAndAutoAnswer_FirstOption(lastMessage) ==
  IF lastMessage = <<>> THEN <<>>
  ELSE LET matches == matchAll(lastMessage, 1)
       IN  IF Len(matches) >= 2 THEN matches[1]
           ELSE IF confirmPattern(lastMessage) THEN <<"y">>
           ELSE <<>>

\* the answer detectAndAutoAnswer sends for the last assistant text; <<>>: it
\* sends none and returns false
detectAndAutoAnswer(lastMessage) ==
  IF lastMessage = <<>> THEN <<>>
  ELSE LET matches == matchAll(lastMessage, 1)
       IN  IF Len(matches) >= 2 THEN matches[Len(matches)]
           ELSE IF confirmPattern(lastMessage) THEN <<"y">>
           ELSE <<>>

(***************************************************************************)
(* The environment: callers, stories, documents, texts.                    *)
(***************************************************************************)
Callers == 1..NumCallers
Stories == {"1-3", "2-1"}
NoStory == "null"
Statuses == {"ready-for-dev", "in-progress", "review", "done", "blocked"}
NoStats == "null"
Stats == "taskStats"
NoSession == 0

\* last assistant texts a session may show
Texts ==
  { <<>>,
    <<"D", "o", "n", "e">>,
    PASS,
    NEEDS_WORK,
    <<"o", "k", "?">>,
    <<"1", ")", " ", "a", "\n", "2", ")", " ", "o">> }

\* results of client.session.status() for the polled session
PollResults == {"idle", "missing", "busy", "retry"}

\* the program constant of waitForSession
maxAutoAnswers == 10

(***************************************************************************)
(* State.                                                                  *)
(***************************************************************************)
VARIABLES
  \* the fields of Foreman
  state, currentStoryId, iteration, isRunning, managedSessions, storyPath,
  taskStats,
  \* config.max_iterations
  max_iterations,
  \* per caller of run(): the await it is suspended at, and the locals of
  \* the role step it is in (run*Session, waitForSession)
  pc, step, sessionId, autoAnswerCount, busyPolls,
  \* of the run in progress or last settled: the status token read from the
  \* document, the roles of the sessions created, whether a concurrent call
  \* was rejected meanwhile
  storyStatus, created, conflicted,
  \* of the same run: the roles an instruction was sent to, the number of
  \* sessions waitForSession returned for, the arbiter's verdicts
  instructed, completed, verdicts,
  \* of the same run: the session an abort was asked for, the progress
  \* notifications given to the caller's callback
  aborted, notified,
  \* what the last step did that the outside sees
  lastEvent,
  \* argument and result of the pure function under test
  fnIn, fnOut,
  \* the event-driven variant: the keys of its sessionWaiters map, the state
  \* of each session's timeout timer, the resolve and reject calls made on
  \* each session's wait, the sessions an idle event came for in time
  sessionWaiters, timeouts, waits, idled

fields == <<state, currentStoryId, iteration, isRunning, managedSessions,
            storyPath, taskStats>>
locals == <<pc, step, sessionId, autoAnswerCount, busyPolls>>
progress == <<instructed, completed, verdicts>>
history == <<storyStatus, created, conflicted, progress, notified>>
eventDriven == <<sessionWaiters, timeouts, waits, idled>>
vars == <<fields, max_iterations, locals, history, aborted, lastEvent, fnIn,
          fnOut, eventDriven>>

NoInput == "none"
NoStep == "none"

Ev(type, c, info, text) ==
  [type |-> type, caller |-> c, info |-> info, text |-> text]

ForemanInit ==
  /\ state = Idle
  /\ currentStoryId = NoStory
  /\ iteration = 1
  /\ isRunning = FALSE
  /\ managedSessions = <<>>
  /\ storyPath = NoStory
  /\ taskStats = NoStats
  /\ pc = [c \in Callers |-> "idle"]
  /\ step = [c \in Callers |-> NoStep]
  /\ sessionId = [c \in Callers |-> NoSession]
  /\ autoAnswerCount = [c \in Callers |-> 0]
  /\ busyPolls = [c \in Callers |-> 0]
  /\ storyStatus = "none"
  /\ created = <<>>
  /\ conflicted = FALSE
  /\ instructed = <<>>
  /\ completed = 0
  /\ verdicts = <<>>
  /\ aborted = NoSession
  /\ notified = <<>>
  /\ lastEvent = Ev("none", 0, "", <<>>)
  /\ sessionWaiters = {}
  /\ timeouts = <<>>
  /\ waits = <<>>
  /\ idled = {}

Init ==
  /\ ForemanInit
  /\ max_iterations \in 1..MaxIterationsBound
  /\ fnIn = NoInput
  /\ fnOut = NoInput

(***************************************************************************)
(* Queries.                                                                *)
(***************************************************************************)
\* Map.set: a new key goes last, an existing key keeps its place
MapSet(m, id, role) ==
  IF \E i \in 1..Len(m) : m[i].id = id
    THEN [i \in 1..Len(m) |->
            IF m[i].id = id THEN [id |-> id, role |-> role] ELSE m[i]]
    ELSE Append(m, [id |-> id, role |-> role])

isManagedSession(id) ==
  \E i \in 1..Len(managedSessions) : managedSessions[i].id = id

getStatus ==
  [ state |-> state,
    storyId |-> currentStoryId,
    iteration |-> iteration,
    maxIterations |-> max_iterations,
    currentRole |-> IF managedSessions = <<>> THEN "null"
                    ELSE managedSessions[Len(managedSessions)].role,
    taskStats |-> taskStats ]

\* a faulty variant of the lookup: a done document starts over
determineInitialState_DoneRestarts(status) ==
  CASE status = "ready-for-dev" -> Idle
    [] status = "in-progress" -> Developing
    [] status = "review" -> Reviewing
    [] OTHER -> Idle

\* a faulty variant of the lookup: a document under review is developed again
determineInitialState_ReviewDevelops(status) ==
  CASE status = "ready-for-dev" -> Idle
    [] status = "in-progress" -> Developing
    [] status = "review" -> Developing
    [] status = "done" -> Complete
    [] OTHER -> Idle

determineInitialState(status) ==
  CASE status = "ready-for-dev" -> Idle
    [] status = "in-progress" -> Developing
    [] status = "review" -> Reviewing
    [] status = "done" -> Complete
    [] OTHER -> Idle

RoleOf(s) ==
  CASE s = Developing -> Developer
    [] s = Reviewing -> Reviewer
    [] s = Arbitrating -> Arbiter

(***************************************************************************)
(* Pieces of run().                                                        *)
(***************************************************************************)
SetLocals(c, p, r, sid, count, polls) ==
  /\ pc' = [pc EXCEPT ![c] = p]
  /\ step' = [step EXCEPT ![c] = r]
  /\ sessionId' = [sessionId EXCEPT ![c] = sid]
  /\ autoAnswerCount' = [autoAnswerCount EXCEPT ![c] = count]
  /\ busyPolls' = [busyPolls EXCEPT ![c] = polls]

\* a faulty variant of cleanup: the tracking map is not cleared
cleanup_KeepsSessions ==
  /\ managedSessions' = managedSessions
  /\ isRunning' = FALSE
  /\ storyPath' = NoStory
  /\ taskStats' = NoStats

cleanup ==
  /\ managedSessions' = <<>>
  /\ isRunning' = FALSE
  /\ storyPath' = NoStory
  /\ taskStats' = NoStats

\* the finally block, leaving run(): by a return or by an exception
Settle(c, type, info) ==
  /\ cleanup
  /\ SetLocals(c, "idle", NoStep, NoSession, 0, 0)
  /\ lastEvent' = Ev(type, c, info, <<>>)

\* a faulty variant of the exit by exception: a handler assigns Failed itself
Throw_AssignsFailed(c, kind) ==
  /\ Settle(c, "threw", kind)
  /\ state' = Failed
  /\ UNCHANGED <<currentStoryId, iteration, max_iterations, history,
                 aborted, fnIn, fnOut, eventDriven>>

\* an exception leaves through the finally block; nothing catches it
Throw(c, kind) ==
  /\ Settle(c, "threw", kind)
  /\ UNCHANGED <<state, currentStoryId, iteration, max_iterations, history,
                 aborted, fnIn, fnOut, eventDriven>>

\* the while loop of run(), from the state s just assigned up to its next
\* await (a session creation) or to the return
\* the update onProgress is called with: before a role step, and at the end
Update(s, iter, max, role) ==
  [state |-> s, iteration |-> iter, maxIterations |-> max, role |-> role]

EnterLoop(c, s, stats, iter) ==
  LET s1 == IF s = Idle
              THEN nextState(s, "startDeveloping", Undefined, UndefinedNum,
                             UndefinedNum)
              ELSE s
  IN  /\ state' = s1
      /\ IF s1 \in {Complete, Failed}
           THEN /\ Settle(c, "returned",
                          IF s1 = Complete THEN "success" ELSE "failed")
                /\ notified' = Append(notified,
                                      Update(s1, iter, UndefinedNum, "null"))
           ELSE /\ taskStats' = stats
                /\ UNCHANGED <<managedSessions, isRunning, storyPath>>
                /\ SetLocals(c, "create", RoleOf(s1), NoSession, 0, 0)
                /\ lastEvent' = Ev("create", c, RoleOf(s1), <<>>)
                /\ notified' = Append(notified,
                                      Update(s1, iter, max_iterations,
                                             RoleOf(s1)))

\* the loop test of waitForSession after a poll or an auto-answer
\* a faulty variant of the loop test: the abort goes to the run's first session
LoopTest_AbortsFirst(c, count, polls, expired) ==
  IF expired
    THEN /\ SetLocals(c, "abort", step[c], sessionId[c], count, polls)
         /\ aborted' = 1
         /\ lastEvent' = Ev("abort", c, "", <<>>)
    ELSE /\ SetLocals(c, "sleep", step[c], sessionId[c], count, polls)
         /\ aborted' = aborted
         /\ lastEvent' = Ev("sleep", c, "", <<>>)

LoopTest(c, count, polls, expired) ==
  IF expired
    THEN /\ SetLocals(c, "abort", step[c], sessionId[c], count, polls)
         /\ aborted' = sessionId[c]
         /\ lastEvent' = Ev("abort", c, "", <<>>)
    ELSE /\ SetLocals(c, "sleep", step[c], sessionId[c], count, polls)
         /\ aborted' = aborted
         /\ lastEvent' = Ev("sleep", c, "", <<>>)

(***************************************************************************)
(* run(): the call.                                                        *)
(***************************************************************************)
\* a faulty variant of the guard's throw: the story is recorded before the test
run_Busy_RecordsFirst(c, storyId) ==
  /\ pc[c] = "idle"
  /\ isRunning
  /\ lastEvent' = Ev("rejected", c, currentStoryId, <<>>)
  /\ currentStoryId' = storyId
  /\ conflicted' = TRUE
  /\ UNCHANGED <<state, iteration, isRunning, managedSessions, storyPath,
                 taskStats, max_iterations, locals, storyStatus, created,
                 progress, notified, aborted, fnIn, fnOut, eventDriven>>

\* if (this.isRunning) throw new Error(`Foreman busy with story ...`)
run_Busy(c, storyId) ==
  /\ pc[c] = "idle"
  /\ isRunning
  /\ lastEvent' = Ev("rejected", c, currentStoryId, <<>>)
  /\ conflicted' = TRUE
  /\ UNCHANGED <<fields, max_iterations, locals, storyStatus, created,
                 progress, notified, aborted, fnIn, fnOut, eventDriven>>

\* a faulty variant of the guard: a call is let in while a run is active
run_Guard_Open ==
  TRUE

run_Guard ==
  ~isRunning

\* a faulty variant of the accepted call: the iteration is not reset
run_Accepted_KeepsIteration(c, storyId) ==
  /\ pc[c] = "idle"
  /\ run_Guard
  /\ isRunning' = TRUE
  /\ currentStoryId' = storyId
  /\ iteration' = iteration
  /\ storyPath' = storyId
  /\ SetLocals(c, "read", NoStep, NoSession, 0, 0)
  /\ storyStatus' = "none"
  /\ created' = <<>>
  /\ conflicted' = FALSE
  /\ instructed' = <<>>
  /\ completed' = 0
  /\ verdicts' = <<>>
  /\ aborted' = NoSession
  /\ notified' = <<>>
  /\ lastEvent' = Ev("read", c, storyId, <<>>)
  /\ UNCHANGED <<state, managedSessions, taskStats, max_iterations, fnIn,
                 fnOut, eventDriven>>

\* past the guard; resolveStoryPath returns; suspended at readAndParseStory
run_Accepted(c, storyId) ==
  /\ pc[c] = "idle"
  /\ run_Guard
  /\ isRunning' = TRUE
  /\ currentStoryId' = storyId
  /\ iteration' = 1
  /\ storyPath' = storyId
  /\ SetLocals(c, "read", NoStep, NoSession, 0, 0)
  /\ storyStatus' = "none"
  /\ created' = <<>>
  /\ conflicted' = FALSE
  /\ instructed' = <<>>
  /\ completed' = 0
  /\ verdicts' = <<>>
  /\ aborted' = NoSession
  /\ notified' = <<>>
  /\ lastEvent' = Ev("read", c, storyId, <<>>)
  /\ UNCHANGED <<state, managedSessions, taskStats, max_iterations, fnIn,
                 fnOut, eventDriven>>

\* a faulty variant of the resolution: the path is resolved only after the
\* first session was asked for
run_ResolveThrows_Late(c, storyId) ==
  /\ pc[c] = "idle"
  /\ run_Guard
  /\ currentStoryId' = storyId
  /\ iteration' = 1
  /\ Settle(c, "threw", "resolve")
  /\ storyStatus' = "none"
  /\ created' = <<Developer>>
  /\ conflicted' = FALSE
  /\ instructed' = <<>>
  /\ completed' = 0
  /\ verdicts' = <<>>
  /\ aborted' = NoSession
  /\ notified' = <<>>
  /\ UNCHANGED <<state, max_iterations, fnIn, fnOut, eventDriven>>

\* past the guard; resolveStoryPath throws (no file matches the id)
run_ResolveThrows(c, storyId) ==
  /\ pc[c] = "idle"
  /\ run_Guard
  /\ currentStoryId' = storyId
  /\ iteration' = 1
  /\ Settle(c, "threw", "resolve")
  /\ storyStatus' = "none"
  /\ created' = <<>>
  /\ conflicted' = FALSE
  /\ instructed' = <<>>
  /\ completed' = 0
  /\ verdicts' = <<>>
  /\ aborted' = NoSession
  /\ notified' = <<>>
  /\ UNCHANGED <<state, max_iterations, fnIn, fnOut, eventDriven>>

run(c, storyId) ==
  \/ run_Busy(c, storyId)
  \/ run_Accepted(c, storyId)
  \/ run_ResolveThrows(c, storyId)

(***************************************************************************)
(* run(): the continuations after each await.                              *)
(***************************************************************************)
\* the awaited promise rejects (readAndParseStory, create, promptAsync,
\* status, messages): the exception leaves run() through finally
await_Rejects(c) ==
  /\ pc[c] \in {"read", "create", "send", "status", "detect", "answer", "verdict"}
  /\ Throw(c, pc[c])

\* readAndParseStory resolves: initial state, then the loop
read_Resolved(c, status) ==
  /\ pc[c] = "read"
  /\ storyStatus' = status
  /\ EnterLoop(c, determineInitialState(status), Stats, iteration)
  /\ UNCHANGED <<currentStoryId, iteration, max_iterations, created,
                 conflicted, progress, aborted, fnIn, fnOut, eventDriven>>

\* a faulty variant of the id test: the instruction is sent before the test
create_NoId_AfterSend(c) ==
  /\ pc[c] = "create"
  /\ Settle(c, "threw", "no session ID returned")
  /\ instructed' = Append(instructed, step[c])
  /\ UNCHANGED <<state, currentStoryId, iteration, max_iterations,
                 storyStatus, created, conflicted, completed, verdicts,
                 notified, aborted, fnIn, fnOut, eventDriven>>

\* session.create resolves without data.id
create_NoId(c) ==
  /\ pc[c] = "create"
  /\ Throw(c, "no session ID returned")

\* session.create resolves with an id; the session is tracked, the prompt is
\* built and sent
create_Resolved(c) ==
  /\ pc[c] = "create"
  /\ LET id == Len(created) + 1
     IN  /\ managedSessions' = MapSet(managedSessions, id, step[c])
         /\ SetLocals(c, "send", step[c], id, 0, 0)
  /\ created' = Append(created, step[c])
  /\ instructed' = Append(instructed, step[c])
  /\ lastEvent' = Ev("prompt", c, "instruction", <<>>)
  /\ UNCHANGED <<state, currentStoryId, iteration, isRunning, storyPath,
                 taskStats, max_iterations, storyStatus, conflicted,
                 completed, verdicts, notified, aborted, fnIn, fnOut, eventDriven>>

\* session.create resolves with an id; parseModel throws on the role's model
create_ModelInvalid(c) ==
  /\ pc[c] = "create"
  /\ created' = Append(created, step[c])
  /\ Settle(c, "threw", "invalid model format")
  /\ UNCHANGED <<state, currentStoryId, iteration, max_iterations,
                 storyStatus, conflicted, progress, notified, aborted, fnIn,
                 fnOut, eventDriven>>

\* the role step is over: the state advances and the loop goes on
\* (runDeveloperSession, runReviewerSession), or the verdict text is fetched
\* (runArbiterSession)
StepDone(c) ==
  IF step[c] = Arbiter
    THEN /\ pc' = [pc EXCEPT ![c] = "verdict"]
         /\ lastEvent' = Ev("messages", c, "verdict", <<>>)
         /\ UNCHANGED <<fields, step, sessionId, autoAnswerCount, busyPolls,
                        notified>>
    ELSE LET next == nextState(state,
                               IF step[c] = Developer THEN "developmentComplete"
                               ELSE "reviewComplete",
                               Undefined, iteration, max_iterations)
         IN  IF next = Thrown
               THEN Settle(c, "threw", Thrown) /\ UNCHANGED <<state, notified>>
               ELSE EnterLoop(c, next, taskStats, iteration)
             /\ UNCHANGED <<currentStoryId, iteration>>

\* promptAsync resolves: waitForSession starts, its first loop test passes
send_Resolved(c) ==
  /\ pc[c] = "send"
  /\ LoopTest(c, 0, 0, FALSE)
  /\ UNCHANGED <<fields, max_iterations, history, fnIn, fnOut, eventDriven>>

sleep_Done(c) ==
  /\ pc[c] = "sleep"
  /\ pc' = [pc EXCEPT ![c] = "status"]
  /\ lastEvent' = Ev("status", c, "", <<>>)
  /\ UNCHANGED <<fields, max_iterations, step, sessionId, autoAnswerCount,
                 busyPolls, history, aborted, fnIn, fnOut, eventDriven>>

\* a faulty variant of the idle poll: it ends the step without a look at the
\* session's last text
status_Idle_Completes(c, result) ==
  /\ pc[c] = "status"
  /\ result \in {"idle", "missing"}
  /\ StepDone(c)
  /\ completed' = completed + 1
  /\ UNCHANGED <<max_iterations, storyStatus, created, conflicted,
                 instructed, verdicts, aborted, fnIn, fnOut, eventDriven>>

\* status() resolves: no entry or idle leads to detectAndAutoAnswer
status_Idle(c, result) ==
  /\ pc[c] = "status"
  /\ result \in {"idle", "missing"}
  /\ pc' = [pc EXCEPT ![c] = "detect"]
  /\ lastEvent' = Ev("messages", c, result, <<>>)
  /\ UNCHANGED <<fields, max_iterations, step, sessionId, autoAnswerCount,
                 busyPolls, history, aborted, fnIn, fnOut, eventDriven>>

\* a faulty variant of the busy poll: a retrying session fails the step
status_Busy_RetryFails(c, result, expired) ==
  /\ pc[c] = "status"
  /\ result \in {"busy", "retry"}
  /\ expired \/ busyPolls[c] < MaxBusyPolls
  /\ IF result = "retry"
       THEN Throw(c, "retry")
       ELSE /\ LoopTest(c, autoAnswerCount[c], busyPolls[c] + 1, expired)
            /\ UNCHANGED <<fields, max_iterations, history, fnIn, fnOut, eventDriven>>

\* status() resolves: retry or busy leads back to the loop test; the clock
\* is past the timeout after MaxBusyPolls such polls at the latest
status_Busy(c, result, expired) ==
  /\ pc[c] = "status"
  /\ result \in {"busy", "retry"}
  /\ expired \/ busyPolls[c] < MaxBusyPolls
  /\ LoopTest(c, autoAnswerCount[c], busyPolls[c] + 1, expired)
  /\ UNCHANGED <<fields, max_iterations, history, fnIn, fnOut, eventDriven>>

\* messages() resolves inside detectAndAutoAnswer
detect_Resolved(c, text) ==
  /\ pc[c] = "detect"
  /\ LET answer == detectAndAutoAnswer(text)
     IN  IF answer = <<>>
           THEN StepDone(c)
           ELSE /\ pc' = [pc EXCEPT ![c] = "answer"]
                /\ lastEvent' = Ev("prompt", c, "answer", answer)
                /\ UNCHANGED <<fields, step, sessionId, autoAnswerCount,
                               busyPolls, notified>>
  /\ completed' = IF detectAndAutoAnswer(text) = <<>>
                    THEN completed + 1
                    ELSE completed
  /\ UNCHANGED <<max_iterations, storyStatus, created, conflicted,
                 instructed, verdicts, aborted, fnIn, fnOut, eventDriven>>

\* a faulty variant of the count: the limit is reached one answer early
answer_Resolved_OffByOne(c, expired) ==
  /\ pc[c] = "answer"
  /\ IF autoAnswerCount[c] + 1 >= maxAutoAnswers
       THEN Throw(c, "too many auto-answers")
       ELSE /\ LoopTest(c, autoAnswerCount[c] + 1, busyPolls[c], expired)
            /\ UNCHANGED <<fields, max_iterations, history, fnIn, fnOut, eventDriven>>

\* promptAsync of the auto-answer resolves: count it, then the loop test
answer_Resolved(c, expired) ==
  /\ pc[c] = "answer"
  /\ IF autoAnswerCount[c] + 1 > maxAutoAnswers
       THEN Throw(c, "too many auto-answers")
       ELSE /\ LoopTest(c, autoAnswerCount[c] + 1, busyPolls[c], expired)
            /\ UNCHANGED <<fields, max_iterations, history, fnIn, fnOut, eventDriven>>

\* abort() settles either way: the timeout error, or abort's own
abort_Settled(c, kind) ==
  /\ pc[c] = "abort"
  /\ kind \in {"timed out", "abort"}
  /\ Throw(c, kind)

\* a faulty variant of the arbiter step: the iteration is bumped on every
\* NeedsWork verdict, also when the ceiling ends the run
verdict_Resolved_BumpsAtCeiling(c, text) ==
  /\ pc[c] = "verdict"
  /\ LET verdict == parseArbiterVerdict(text)
         next == nextState(state, "verdict", verdict, iteration, max_iterations)
     IN  IF next = Thrown
           THEN /\ Settle(c, "threw", Thrown)
                /\ UNCHANGED <<state, iteration, notified>>
           ELSE LET iter == IF verdict = NeedsWork
                              THEN iteration + 1
                              ELSE iteration
                IN  /\ iteration' = iter
                    /\ EnterLoop(c, next, taskStats, iter)
  /\ verdicts' = Append(verdicts, parseArbiterVerdict(text))
  /\ UNCHANGED <<currentStoryId, max_iterations, storyStatus, created,
                 conflicted, instructed, completed, aborted, fnIn, fnOut, eventDriven>>

\* messages() resolves inside runArbiterSession: verdict, transition,
\* iteration bump, then the loop
verdict_Resolved(c, text) ==
  /\ pc[c] = "verdict"
  /\ LET verdict == parseArbiterVerdict(text)
         next == nextState(state, "verdict", verdict, iteration, max_iterations)
     IN  IF next = Thrown
           THEN /\ Settle(c, "threw", Thrown)
                /\ UNCHANGED <<state, iteration, notified>>
           ELSE LET iter == IF verdict = NeedsWork /\ next = Developing
                              THEN iteration + 1
                              ELSE iteration
                IN  /\ iteration' = iter
                    /\ EnterLoop(c, next, taskStats, iter)
  /\ verdicts' = Append(verdicts, parseArbiterVerdict(text))
  /\ UNCHANGED <<currentStoryId, max_iterations, storyStatus, created,
                 conflicted, instructed, completed, aborted, fnIn, fnOut, eventDriven>>

Next ==
  \E c \in Callers :
    \/ \E storyId \in Stories : run(c, storyId)
    \/ await_Rejects(c)
    \/ \E status \in Statuses : read_Resolved(c, status)
    \/ create_NoId(c)
    \/ create_Resolved(c)
    \/ create_ModelInvalid(c)
    \/ send_Resolved(c)
    \/ sleep_Done(c)
    \/ \E result \in PollResults : status_Idle(c, result)
    \/ \E result \in PollResults, expired \in BOOLEAN :
         status_Busy(c, result, expired)
    \/ \E text \in Texts : detect_Resolved(c, text)
    \/ \E expired \in BOOLEAN : answer_Resolved(c, expired)
    \/ \E kind \in {"timed out", "abort"} : abort_Settled(c, kind)
    \/ \E text \in Texts : verdict_Resolved(c, text)

Spec == Init /\ [][Next]_vars

\* the continuations of caller c's run: the awaited promises settle
RunStep(c) ==
  \/ await_Rejects(c)
  \/ \E status \in Statuses : read_Resolved(c, status)
  \/ create_NoId(c)
  \/ create_Resolved(c)
  \/ create_ModelInvalid(c)
  \/ send_Resolved(c)
  \/ sleep_Done(c)
  \/ \E result \in PollResults : status_Idle(c, result)
  \/ \E result \in PollResults, expired \in BOOLEAN :
       status_Busy(c, result, expired)
  \/ \E text \in Texts : detect_Resolved(c, text)
  \/ \E expired \in BOOLEAN : answer_Resolved(c, expired)
  \/ \E kind \in {"timed out", "abort"} : abort_Settled(c, kind)
  \/ \E text \in Texts : verdict_Resolved(c, text)

\* every promise a run awaits settles in the end
FairSpec == Spec /\ WF_vars(\E c \in Callers : RunStep(c))

(***************************************************************************)
(* The plugin's permission hook, called at any moment of a run.            *)
(***************************************************************************)
\* input.sessionID: absent, or the id of a session; output.status as the
\* hook finds it
HookIds == {NoSession, 1, 2}
HookStatuses == {Undefined, "deny"}

\* a faulty variant of the hook: every request that names a session is allowed
permission_ask_AllowsAll(sessionID, status) ==
  /\ fnIn' = [sessionID |-> sessionID, status |-> status]
  /\ fnOut' = [status |-> IF sessionID # NoSession THEN "allow" ELSE status]
  /\ UNCHANGED <<fields, max_iterations, locals, history, aborted, lastEvent, eventDriven>>

\* "permission.ask": output.status = "allow" for a managed session
permission_ask(sessionID, status) ==
  /\ fnIn' = [sessionID |-> sessionID, status |-> status]
  /\ fnOut' = [status |-> IF sessionID # NoSession /\ isManagedSession(sessionID)
                            THEN "allow"
                            ELSE status]
  /\ UNCHANGED <<fields, max_iterations, locals, history, aborted, lastEvent, eventDriven>>

InitHook ==
  /\ ForemanInit
  /\ max_iterations \in 1..MaxIterationsBound
  /\ fnIn = [sessionID |-> NoSession, status |-> Undefined]
  /\ fnOut = [status |-> Undefined]

\* the hook between the steps of the runs of one caller: the hook reads
\* managedSessions only, which a rejected concurrent call leaves as it is
NextHook ==
  \/ \E storyId \in Stories : run_Accepted(1, storyId)
  \/ \E storyId \in Stories : run_ResolveThrows(1, storyId)
  \/ RunStep(1)
  \/ \E sessionID \in HookIds, status \in HookStatuses :
       permission_ask(sessionID, status)

SpecHook == InitHook /\ [][NextHook]_vars

(***************************************************************************)
(* nextState on its own: arguments drawn from bounded sets, the function    *)
(* applied, its result fed back as the next current state.                 *)
(***************************************************************************)
Pending == "pending"
Args == {UndefinedNum} \cup (1..MaxArg)

InitNextState ==
  /\ ForemanInit
  /\ max_iterations = 1
  /\ fnIn \in [ current : ForemanState,
                event : ForemanEvent,
                verdict : ArbiterVerdict \cup {Undefined},
                iteration : Args,
                maxIterations : Args,
                applied : {0} ]
  /\ fnOut = Pending

apply_nextState ==
  /\ fnOut = Pending
  /\ fnOut' = nextState(fnIn.current, fnIn.event, fnIn.verdict,
                        fnIn.iteration, fnIn.maxIterations)
  /\ fnIn' = [fnIn EXCEPT
                !.applied = IF @ < MaxApply THEN @ + 1 ELSE @]
  /\ UNCHANGED <<fields, max_iterations, locals, history, aborted, lastEvent, eventDriven>>

feed_nextState(event, verdict) ==
  /\ fnOut \in ForemanState
  /\ fnIn' = [fnIn EXCEPT !.current = fnOut, !.event = event,
                          !.verdict = verdict]
  /\ fnOut' = Pending
  /\ UNCHANGED <<fields, max_iterations, locals, history, aborted, lastEvent, eventDriven>>

NextNextState ==
  \/ apply_nextState
  \/ \E event \in ForemanEvent, verdict \in ArbiterVerdict \cup {Undefined} :
       feed_nextState(event, verdict)

SpecNextState == InitNextState /\ [][NextNextState]_vars

(***************************************************************************)
(* parseArbiterVerdict on its own: texts built from fragments.             *)
(***************************************************************************)
Fragments ==
  << PASS,
     <<"p", "a", "s", "s">>,
     <<"P", "a">>,
     <<"s", "S">>,
     NEEDS_WORK,
     <<"n", "e", "e", "d", "s", "_">>,
     <<"W", "o", "r", "k">>,
     <<"N", "e", "e", "d", "s">>,
     <<"_", "w", "o", "r", "k">>,
     <<" ">>,
     <<"o", "k">> >>

RECURSIVE Concat(_)
Concat(parts) ==
  IF parts = <<>> THEN <<>>
  ELSE Fragments[Head(parts)] \o Concat(Tail(parts))

ArbiterTexts ==
  { Concat(parts) :
      parts \in UNION {[1..n -> 1..Len(Fragments)] : n \in 0..MaxFrags} }

InitVerdict ==
  /\ ForemanInit
  /\ max_iterations = 1
  /\ fnIn \in ArbiterTexts
  /\ fnOut = Pending

apply_parseArbiterVerdict ==
  /\ fnOut = Pending
  /\ fnOut' = parseArbiterVerdict(fnIn)
  /\ UNCHANGED <<fields, max_iterations, locals, history, aborted, lastEvent,
                 fnIn, eventDriven>>

SpecVerdict == InitVerdict /\ [][apply_parseArbiterVerdict]_vars

(***************************************************************************)
(* detectAndAutoAnswer on its own: last texts built from fragments.         *)
(***************************************************************************)
PromptFragments ==
  << <<"1", ")", " ", "a">>,
     <<"2", ".", " ", "o">>,
     <<"1", "0", ")", " ", "k">>,
     <<"3", ")">>,
     <<"\n">>,
     <<" ">>,
     <<"o", "k", "?">>,
     <<"D", "o", "n", "e">> >>

RECURSIVE ConcatPrompt(_)
ConcatPrompt(parts) ==
  IF parts = <<>> THEN <<>>
  ELSE PromptFragments[Head(parts)] \o ConcatPrompt(Tail(parts))

LastTexts ==
  { ConcatPrompt(parts) :
      parts \in UNION {[1..n -> 1..Len(PromptFragments)] : n \in 0..MaxFrags} }

InitDetect ==
  /\ ForemanInit
  /\ max_iterations = 1
  /\ fnIn \in [text : LastTexts, applied : {FALSE}]
  /\ fnOut = <<>>

apply_detectAndAutoAnswer ==
  /\ ~fnIn.applied
  /\ fnOut' = detectAndAutoAnswer(fnIn.text)
  /\ fnIn' = [fnIn EXCEPT !.applied = TRUE]
  /\ UNCHANGED <<fields, max_iterations, locals, history, aborted, lastEvent, eventDriven>>

SpecDetect == InitDetect /\ [][apply_detectAndAutoAnswer]_vars

(***************************************************************************)
(* The event-driven variant of the Foreman class (src/foreman.ts): run()   *)
(* waits for each session on a promise that handleEvent or the timeout     *)
(* timer settles.  One caller drives the runs; events arrive at any moment. *)
(***************************************************************************)
\* session ids an event may name: the last one is never created
EventSessions == 1..(3 * MaxIterationsBound + 1)
EventTypes == {"session.idle", "session.error", "message.updated"}

\* the events handed to handleEvent: values that are no object, that have no
\* properties object, whose sessionID is no string, and well-formed ones
Events ==
  {[shape |-> sh, type |-> "session.idle", sessionID |-> NoSession] :
     sh \in {"no object", "no properties", "no sessionID"}}
  \cup {[shape |-> "event", type |-> t, sessionID |-> id] :
          t \in EventTypes, id \in EventSessions}

evt_cleanup ==
  /\ timeouts' = [id \in 1..Len(timeouts) |->
                    IF id \in sessionWaiters THEN "cleared" ELSE timeouts[id]]
  /\ sessionWaiters' = {}
  /\ managedSessions' = <<>>
  /\ isRunning' = FALSE
  /\ storyPath' = NoStory

\* the finally block, leaving run(): by a return or by an exception
evt_Settle(c, type, info) ==
  /\ evt_cleanup
  /\ SetLocals(c, "idle", NoStep, NoSession, 0, 0)
  /\ lastEvent' = Ev(type, c, info, <<>>)

evt_Throw(c, kind) ==
  /\ evt_Settle(c, "threw", kind)
  /\ UNCHANGED <<state, currentStoryId, iteration, taskStats, max_iterations,
                 history, aborted, waits, idled, fnIn, fnOut>>

\* the while loop of run(), from the state s just assigned up to its next
\* await (a session creation) or to the return
evt_EnterLoop(c, s) ==
  LET s1 == IF s = Idle
              THEN nextState(s, "startDeveloping", Undefined, UndefinedNum,
                             UndefinedNum)
              ELSE s
  IN  /\ state' = s1
      /\ IF s1 \in {Complete, Failed}
           THEN evt_Settle(c, "returned",
                           IF s1 = Complete THEN "success" ELSE "failed")
           ELSE /\ SetLocals(c, "create", RoleOf(s1), NoSession, 0, 0)
                /\ lastEvent' = Ev("create", c, RoleOf(s1), <<>>)
                /\ UNCHANGED <<managedSessions, isRunning, storyPath,
                               sessionWaiters, timeouts>>

\* past the guard; resolveStoryPath returns; suspended at readAndParseStory.
\* The sessions of a new run have new ids: their timers and waits start empty
evt_run_Accepted(c, storyId) ==
  /\ pc[c] = "idle"
  /\ ~isRunning
  /\ isRunning' = TRUE
  /\ currentStoryId' = storyId
  /\ iteration' = 1
  /\ storyPath' = storyId
  /\ SetLocals(c, "read", NoStep, NoSession, 0, 0)
  /\ storyStatus' = "none"
  /\ created' = <<>>
  /\ instructed' = <<>>
  /\ completed' = 0
  /\ verdicts' = <<>>
  /\ aborted' = NoSession
  /\ timeouts' = <<>>
  /\ waits' = <<>>
  /\ idled' = {}
  /\ lastEvent' = Ev("read", c, storyId, <<>>)
  /\ UNCHANGED <<state, managedSessions, taskStats, max_iterations,
                 conflicted, notified, sessionWaiters, fnIn, fnOut>>

\* past the guard; resolveStoryPath throws
evt_run_ResolveThrows(c, storyId) ==
  /\ pc[c] = "idle"
  /\ ~isRunning
  /\ currentStoryId' = storyId
  /\ iteration' = 1
  /\ evt_Settle(c, "threw", "resolve")
  /\ storyStatus' = "none"
  /\ created' = <<>>
  /\ instructed' = <<>>
  /\ completed' = 0
  /\ verdicts' = <<>>
  /\ aborted' = NoSession
  /\ waits' = <<>>
  /\ idled' = {}
  /\ UNCHANGED <<state, taskStats, max_iterations, conflicted, notified,
                 fnIn, fnOut>>

\* the awaited promise rejects (readAndParseStory, create, promptAsync,
\* messages)
evt_await_Rejects(c) ==
  /\ pc[c] \in {"read", "create", "send", "verdict"}
  /\ evt_Throw(c, pc[c])

evt_read_Resolved(c, status) ==
  /\ pc[c] = "read"
  /\ storyStatus' = status
  /\ evt_EnterLoop(c, determineInitialState(status))
  /\ UNCHANGED <<currentStoryId, iteration, taskStats, max_iterations,
                 created, conflicted, progress, notified, aborted, waits,
                 idled, fnIn, fnOut>>

\* session.create resolves without data.id
evt_create_NoId(c) ==
  /\ pc[c] = "create"
  /\ evt_Throw(c, "no session ID returned")

\* session.create resolves with an id; the session is tracked and the prompt
\* is sent
evt_create_Resolved(c) ==
  /\ pc[c] = "create"
  /\ LET id == Len(created) + 1
     IN  /\ managedSessions' = MapSet(managedSessions, id, step[c])
         /\ SetLocals(c, "send", step[c], id, 0, 0)
  /\ created' = Append(created, step[c])
  /\ instructed' = Append(instructed, step[c])
  /\ lastEvent' = Ev("prompt", c, "instruction", <<>>)
  /\ UNCHANGED <<state, currentStoryId, iteration, isRunning, storyPath,
                 taskStats, max_iterations, storyStatus, conflicted,
                 completed, verdicts, notified, aborted, eventDriven, fnIn,
                 fnOut>>

\* promptAsync resolves; waitForSession arms the timer and registers the
\* waiter, and run() is suspended on the new promise
evt_waitForSession(c) ==
  /\ pc[c] = "send"
  /\ timeouts' = Append(timeouts, "armed")
  /\ sessionWaiters' = sessionWaiters \cup {sessionId[c]}
  /\ waits' = Append(waits, <<>>)
  /\ pc' = [pc EXCEPT ![c] = "wait"]
  /\ lastEvent' = Ev("wait", c, "", <<>>)
  /\ UNCHANGED <<fields, max_iterations, step, sessionId, autoAnswerCount,
                 busyPolls, history, aborted, idled, fnIn, fnOut>>

\* a faulty variant of the handler: every event that is no error is taken
\* for the session going idle
evt_handleEvent_AnyType(event) ==
  /\ fnIn' = event
  /\ LET sessionID == event.sessionID
     IN  IF /\ event.shape = "event"
            /\ isManagedSession(sessionID)
            /\ sessionID \in sessionWaiters
           THEN /\ timeouts' = [timeouts EXCEPT ![sessionID] = "cleared"]
                /\ sessionWaiters' = sessionWaiters \ {sessionID}
                /\ waits' = [waits EXCEPT ![sessionID] =
                               Append(@, IF event.type = "session.error"
                                           THEN "rejected"
                                           ELSE "resolved")]
           ELSE UNCHANGED <<sessionWaiters, timeouts, waits>>
  /\ idled' = idled
  /\ UNCHANGED <<fields, max_iterations, locals, history, aborted, lastEvent,
                 fnOut>>

\* handleEvent: the early returns, then the two event types that settle the
\* session's wait.  idled notes an idle event that came for a tracked
\* session whose timer had not fired
evt_handleEvent(event) ==
  /\ fnIn' = event
  /\ LET sessionID == event.sessionID
     IN  /\ IF event.shape # "event" THEN
              UNCHANGED <<sessionWaiters, timeouts, waits>>
            ELSE IF ~isManagedSession(sessionID) THEN
              UNCHANGED <<sessionWaiters, timeouts, waits>>
            ELSE IF sessionID \notin sessionWaiters THEN
              UNCHANGED <<sessionWaiters, timeouts, waits>>
            ELSE IF event.type = "session.idle" THEN
              /\ timeouts' = [timeouts EXCEPT ![sessionID] = "cleared"]
              /\ sessionWaiters' = sessionWaiters \ {sessionID}
              /\ waits' = [waits EXCEPT ![sessionID] = Append(@, "resolved")]
            ELSE IF event.type = "session.error" THEN
              /\ timeouts' = [timeouts EXCEPT ![sessionID] = "cleared"]
              /\ sessionWaiters' = sessionWaiters \ {sessionID}
              /\ waits' = [waits EXCEPT ![sessionID] = Append(@, "rejected")]
            ELSE
              UNCHANGED <<sessionWaiters, timeouts, waits>>
         /\ idled' = IF /\ event.shape = "event"
                        /\ event.type = "session.idle"
                        /\ isManagedSession(sessionID)
                        /\ \/ sessionID > Len(timeouts)
                           \/ timeouts[sessionID] = "armed"
                       THEN idled \cup {sessionID}
                       ELSE idled
  /\ UNCHANGED <<fields, max_iterations, locals, history, aborted, lastEvent,
                 fnOut>>

\* the timeout timer of a session fires: the waiter is deleted and abort()
\* is awaited
evt_timeout_Fires(id) ==
  /\ id \in 1..Len(timeouts)
  /\ timeouts[id] = "armed"
  /\ sessionWaiters' = sessionWaiters \ {id}
  /\ timeouts' = [timeouts EXCEPT ![id] = "aborting"]
  /\ aborted' = id
  /\ UNCHANGED <<fields, max_iterations, locals, history, lastEvent, waits,
                 idled, fnIn, fnOut>>

\* abort() settles inside the timer's callback: it resolves and the wait is
\* rejected, or it rejects and the callback ends there, before its reject()
evt_abort_Settled(id, resolved) ==
  /\ id \in 1..Len(timeouts)
  /\ timeouts[id] = "aborting"
  /\ IF resolved
       THEN /\ waits' = [waits EXCEPT ![id] = Append(@, "timed out")]
            /\ timeouts' = [timeouts EXCEPT ![id] = "done"]
       ELSE /\ waits' = waits
            /\ timeouts' = [timeouts EXCEPT ![id] = "died"]
  /\ UNCHANGED <<fields, max_iterations, locals, history, aborted, lastEvent,
                 sessionWaiters, idled, fnIn, fnOut>>

\* the role step is over: the state advances and the loop goes on, or the
\* verdict text is fetched (runArbiterSession)
evt_StepDone(c) ==
  IF step[c] = Arbiter
    THEN /\ pc' = [pc EXCEPT ![c] = "verdict"]
         /\ lastEvent' = Ev("messages", c, "verdict", <<>>)
         /\ UNCHANGED <<fields, step, sessionId, autoAnswerCount, busyPolls,
                        sessionWaiters, timeouts>>
    ELSE LET next == nextState(state,
                               IF step[c] = Developer THEN "developmentComplete"
                               ELSE "reviewComplete",
                               Undefined, iteration, max_iterations)
         IN  IF next = Thrown
               THEN evt_Settle(c, "threw", Thrown) /\ state' = state
               ELSE evt_EnterLoop(c, next)
             /\ UNCHANGED <<currentStoryId, iteration, taskStats>>

\* the promise of waitForSession has been settled: run() goes on after the
\* await, or the rejection leaves run() through finally
evt_wait_Settled(c) ==
  /\ pc[c] = "wait"
  /\ waits[sessionId[c]] # <<>>
  /\ IF Head(waits[sessionId[c]]) = "resolved"
       THEN /\ evt_StepDone(c)
            /\ completed' = completed + 1
            /\ UNCHANGED <<max_iterations, storyStatus, created, conflicted,
                           instructed, verdicts, notified, aborted, waits,
                           idled, fnIn, fnOut>>
       ELSE evt_Throw(c, Head(waits[sessionId[c]]))

\* messages() resolves inside runArbiterSession: verdict, transition,
\* iteration bump, then the loop
evt_verdict_Resolved(c, text) ==
  /\ pc[c] = "verdict"
  /\ LET verdict == parseArbiterVerdict(text)
         next == nextState(state, "verdict", verdict, iteration, max_iterations)
     IN  IF next = Thrown
           THEN /\ evt_Settle(c, "threw", Thrown)
                /\ UNCHANGED <<state, iteration>>
           ELSE /\ iteration' = IF verdict = NeedsWork /\ next = Developing
                                  THEN iteration + 1
                                  ELSE iteration
                /\ evt_EnterLoop(c, next)
  /\ verdicts' = Append(verdicts, parseArbiterVerdict(text))
  /\ UNCHANGED <<currentStoryId, taskStats, max_iterations, storyStatus,
                 created, conflicted, instructed, completed, notified,
                 aborted, waits, idled, fnIn, fnOut>>

\* no event has been handed to handleEvent yet
NoEvent == [shape |-> "none", type |-> "none", sessionID |-> NoSession]

InitEvents ==
  /\ ForemanInit
  /\ max_iterations \in 1..MaxIterationsBound
  /\ fnIn = NoEvent
  /\ fnOut = NoInput

NextEvents ==
  \/ \E storyId \in Stories : evt_run_Accepted(1, storyId)
  \/ \E storyId \in Stories : evt_run_ResolveThrows(1, storyId)
  \/ evt_await_Rejects(1)
  \/ \E status \in Statuses : evt_read_Resolved(1, status)
  \/ evt_create_NoId(1)
  \/ evt_create_Resolved(1)
  \/ evt_waitForSession(1)
  \/ \E event \in Events : evt_handleEvent(event)
  \/ \E id \in EventSessions : evt_timeout_Fires(id)
  \/ \E id \in EventSessions, resolved \in BOOLEAN :
       evt_abort_Settled(id, resolved)
  \/ evt_wait_Settled(1)
  \/ \E text \in Texts : evt_verdict_Resolved(1, text)

SpecEvents == InitEvents /\ [][NextEvents]_vars

(***************************************************************************)
(* Properties of run().                                                    *)
(***************************************************************************)
Active == {c \in Callers : pc[c] # "idle"}

CountRole(roles, r) == Cardinality({i \in 1..Len(roles) : roles[i] = r})

\* ids a transport may have handed out in one run
SessionIds == 1..(3 * MaxIterationsBound + 3)

\* C1 (single-flight): at most one run is past the guard; a call made while a
\* run is active is rejected in the same step, never let in and never queued,
\* with an error naming the story of the run in progress; the rejection leaves
\* the active run where it was, with its next step still enabled, so that it
\* goes on to its own end.
C1_AtMostOnePastGuard ==
  /\ Cardinality(Active) <= 1
  /\ isRunning <=> Active # {}
  /\ lastEvent.type = "rejected" =>
       /\ isRunning
       /\ lastEvent.info = currentStoryId
       /\ lastEvent.caller \notin Active
       /\ \A c \in Active : ENABLED RunStep(c)

C1_RejectedAtOnce ==
  /\ \A c \in Callers : pc[c] = "idle" /\ isRunning => pc'[c] = "idle"
  /\ (\E c \in Callers : pc[c] = "idle" /\ pc'[c] # "idle") => ~isRunning
  /\ lastEvent'.type = "rejected" => UNCHANGED locals

C1_SingleFlight ==
  /\ []C1_AtMostOnePastGuard
  /\ [][C1_RejectedAtOnce]_vars

\* C1 witness: a run returned success although a concurrent call was rejected
\* while it was in progress
C1_Witness ==
  /\ lastEvent.type = "returned"
  /\ lastEvent.info = "success"
  /\ conflicted
  /\ Len(created) = 3

\* C2 (rejection is a no-op): a step that rejects a run call leaves the machine
\* state, the active story, the iteration, the running flag, the tracked
\* sessions and the status query's answer as they were.
C2_RejectionChangesNothing ==
  [][lastEvent'.type = "rejected" =>
       /\ UNCHANGED <<state, currentStoryId, iteration, isRunning,
                      managedSessions>>
       /\ getStatus' = getStatus]_vars

\* C2 witness: a call was rejected while the active run tracked sessions in
\* its second iteration
C2_Witness ==
  /\ lastEvent.type = "rejected"
  /\ managedSessions # <<>>
  /\ iteration = 2
  /\ currentStoryId = "2-1"

\* C3 (cleanup on every exit): once a run has settled, by return or by any
\* exception, the guard is released, no session is tracked, the status query
\* shows no role and no task stats, and a new run call gets past the guard.
C3_CleanupOnEveryExit ==
  lastEvent.type \in {"returned", "threw"} =>
    /\ ~isRunning
    /\ managedSessions = <<>>
    /\ getStatus.currentRole = "null"
    /\ getStatus.taskStats = NoStats
    /\ \A id \in SessionIds : ~isManagedSession(id)
    /\ \A c \in Callers : ENABLED run_Accepted(c, "1-3")

\* C3 witness: a run left by the timeout error after two sessions were created
C3_Witness ==
  /\ lastEvent.type = "threw"
  /\ lastEvent.info = "timed out"
  /\ Len(created) = 2
  /\ ~isRunning
  /\ managedSessions = <<>>

\* C4 (termination): a run creates at most max_iterations sessions of each
\* role, a returned run is in Complete or Failed, and under fair settling of
\* its awaits every run that got past the guard settles.
C4_CyclesBounded ==
  /\ \A r \in Role : CountRole(created, r) <= max_iterations
  /\ iteration <= max_iterations
  /\ lastEvent.type = "returned" => state \in {Complete, Failed}

C4_Termination ==
  /\ []C4_CyclesBounded
  /\ isRunning ~> ~isRunning

\* C4 witness: a run that hit the ceiling on repeated NeedsWork verdicts
C4_Witness ==
  /\ lastEvent.type = "returned"
  /\ max_iterations = 2
  /\ iteration = 2
  /\ CountRole(created, Arbiter) = 2
  /\ CountRole(created, Developer) = 2

(***************************************************************************)
(* Properties of nextState (under SpecNextState).                          *)
(***************************************************************************)
\* the rows of the transition table of the specification, as (state, event)
InTable(current, event) ==
  \/ current = Idle /\ event = "startDeveloping"
  \/ current = Developing /\ event = "developmentComplete"
  \/ current = Reviewing /\ event = "reviewComplete"
  \/ current = Arbitrating /\ event = "verdict"
  \/ current \in {Idle, Developing, Reviewing, Arbitrating} /\ event = "error"
  \/ current = Failed /\ event = "error"

\* C5 (valid rows): Idle+startDeveloping gives Developing,
\* Developing+developmentComplete gives Reviewing, Reviewing+reviewComplete
\* gives Arbitrating, Arbitrating+verdict(Pass) gives Complete, whatever the
\* iteration and maxIterations arguments and however often the function was
\* applied before.
C5_ValidRows ==
  fnOut # Pending =>
    /\ fnIn.current = Idle /\ fnIn.event = "startDeveloping"
         => fnOut = Developing
    /\ fnIn.current = Developing /\ fnIn.event = "developmentComplete"
         => fnOut = Reviewing
    /\ fnIn.current = Reviewing /\ fnIn.event = "reviewComplete"
         => fnOut = Arbitrating
    /\ fnIn.current = Arbitrating /\ fnIn.event = "verdict"
         /\ fnIn.verdict = Pass
         => fnOut = Complete

\* C5 witness: Pass below the ceiling, on a second application, gave Complete
C5_Witness ==
  /\ fnOut = Complete
  /\ fnIn.current = Arbitrating
  /\ fnIn.event = "verdict"
  /\ fnIn.verdict = Pass
  /\ fnIn.iteration = 1
  /\ fnIn.maxIterations = MaxArg
  /\ fnIn.applied = 2

\* C6 (ceiling): Arbitrating+verdict(NeedsWork) with iteration k >= 1 and
\* maxIterations m >= 1 gives Developing iff k < m, and Complete otherwise.
C6_Ceiling ==
  ( /\ fnOut # Pending
    /\ fnIn.current = Arbitrating
    /\ fnIn.event = "verdict"
    /\ fnIn.verdict = NeedsWork
    /\ fnIn.iteration >= 1
    /\ fnIn.maxIterations >= 1 ) =>
    /\ fnOut = Developing <=> fnIn.iteration < fnIn.maxIterations
    /\ fnOut = Complete <=> ~(fnIn.iteration < fnIn.maxIterations)

\* C6 witness: k = m, the boundary, gave Complete
C6_Witness ==
  /\ fnOut = Complete
  /\ fnIn.current = Arbitrating
  /\ fnIn.event = "verdict"
  /\ fnIn.verdict = NeedsWork
  /\ fnIn.iteration = 2
  /\ fnIn.maxIterations = 2

\* C7 (illegal transitions): for every (state, event) pair that is not a row
\* of the table, nextState throws and returns no state.
C7_AbsentPairsThrow ==
  fnOut # Pending /\ ~InTable(fnIn.current, fnIn.event) => fnOut = Thrown

\* C7 witness: Failed+startDeveloping threw
C7_Witness ==
  /\ fnOut = Thrown
  /\ fnIn.current = Failed
  /\ fnIn.event = "startDeveloping"

\* C8 (error row): the error event moves each of Idle, Developing, Reviewing
\* and Arbitrating to Failed.
C8_ErrorFromNonTerminal ==
  ( /\ fnOut # Pending
    /\ fnIn.event = "error"
    /\ fnIn.current \in {Idle, Developing, Reviewing, Arbitrating} ) =>
    fnOut = Failed

\* C9 (terminal states): no event leads from Complete or Failed to another
\* state, and error on Failed gives Failed, however often it is applied.
C9_Terminal ==
  fnOut # Pending /\ fnIn.current \in {Complete, Failed} =>
    /\ fnOut \in {fnIn.current, Thrown}
    /\ fnIn.current = Failed /\ fnIn.event = "error" => fnOut = Failed

\* C9 witness: error applied to Failed again, after an application that gave
\* Failed, gave Failed
C9_Witness ==
  /\ fnOut = Failed
  /\ fnIn.current = Failed
  /\ fnIn.event = "error"
  /\ fnIn.applied = MaxApply

(***************************************************************************)
(* Properties of parseArbiterVerdict (under SpecVerdict).                  *)
(***************************************************************************)
SameLetter(a, b) ==
  \/ a = b
  \/ \E k \in 1..Len(LowerLetters) : {a, b} = {LowerLetters[k], UpperLetters[k]}

\* the marker occurs in the text as a substring, letter case ignored
ContainsIgnoringCase(text, marker) ==
  \E i \in 0..(Len(text) - Len(marker)) :
    \A j \in 1..Len(marker) : SameLetter(text[i + j], marker[j])

PassMarker == <<"p", "a", "s", "s">>
NeedsWorkMarker == <<"n", "e", "e", "d", "s", "_", "w", "o", "r", "k">>

\* C10 (verdict): the result is Pass iff the text contains the pass marker and
\* not the needs-work marker, letter case ignored; otherwise it is NeedsWork.
C10_Verdict ==
  fnOut # Pending =>
    /\ fnOut \in ArbiterVerdict
    /\ fnOut = Pass <=>
         /\ ContainsIgnoringCase(fnIn, PassMarker)
         /\ ~ContainsIgnoringCase(fnIn, NeedsWorkMarker)

\* C10 witness: a text with both markers, in mixed case, gave NeedsWork
C10_Witness ==
  /\ fnOut = NeedsWork
  /\ ContainsIgnoringCase(fnIn, PassMarker)
  /\ ContainsIgnoringCase(fnIn, NeedsWorkMarker)
  /\ ~includes(fnIn, PASS)
  /\ ~includes(fnIn, NEEDS_WORK)

(***************************************************************************)
(* Scenarios of a whole run.                                               *)
(***************************************************************************)
Settled(info) ==
  /\ lastEvent.type = "returned"
  /\ lastEvent.info = info
  /\ ~isRunning

\* C11 (scenario A): a run on a ready-for-dev document whose first arbiter
\* text gave the verdict Pass (as the text PASS does) has returned success
\* with exactly the three sessions
\* Developer, Reviewer, Arbiter created in this order, in iteration 1, and
\* creates nothing after.
C11_ScenarioA ==
  storyStatus = "ready-for-dev" /\ verdicts # <<>> /\ verdicts[1] = Pass =>
    /\ Settled("success")
    /\ state = Complete
    /\ created = <<Developer, Reviewer, Arbiter>>
    /\ verdicts = <<Pass>>
    /\ iteration = 1

\* C11 witness: such a run, with a ceiling that would have allowed a second
\* iteration
C11_Witness ==
  /\ storyStatus = "ready-for-dev"
  /\ verdicts = <<Pass>>
  /\ max_iterations >= 2
  /\ Settled("success")
  /\ Len(created) = 3

AllNeedsWork ==
  \A i \in 1..Len(verdicts) : verdicts[i] = NeedsWork

C14_OnlyArbiterPass ==
  Settled("success") =>
    /\ CountRole(created, Arbiter) >= 1
    /\ verdicts # <<>>
    /\ verdicts[Len(verdicts)] = Pass

FirstRole(status) ==
  CASE status \in {"ready-for-dev", "in-progress"} -> Developer
    [] status = "review" -> Reviewer

KnownStatuses == {"ready-for-dev", "in-progress", "review", "done"}

\* C16 (unknown status is fatal): once a status token outside the four known
\* ones was read, the run has failed by an exception and no session has been
\* asked for or created.
C16_UnknownStatusFatal ==
  storyStatus \notin KnownStatuses \cup {"none"} =>
    /\ lastEvent.type = "threw"
    /\ ~isRunning
    /\ created = <<>>
    /\ \A c \in Callers : pc[c] = "idle"

\* C17 (unresolvable document): a run that failed because the document was
\* not resolved or not read created no session and sent no instruction.
C17_ResolutionFailsEarly ==
  lastEvent.type = "threw" /\ lastEvent.info \in {"resolve", "read"} =>
    /\ ~isRunning
    /\ storyStatus = "none"
    /\ created = <<>>
    /\ instructed = <<>>
    /\ managedSessions = <<>>

\* C17 witness: the read of story 2-1's document was rejected
C17_Witness ==
  /\ lastEvent.type = "threw"
  /\ lastEvent.info = "read"
  /\ currentStoryId = "2-1"
  /\ storyPath = NoStory
  /\ created = <<>>

\* C18 (aborted runs end in Failed): after a run was ended by a session
\* creation without identifier, by the polling timeout or by the exhaustion of
\* the auto-answers, the caller has the error and the machine state, also as
\* the status query reports it, is Failed.
C18_AbortMeansFailed ==
  ( /\ lastEvent.type = "threw"
    /\ lastEvent.info \in {"no session ID returned", "timed out",
                            "too many auto-answers"} ) =>
    /\ ~isRunning
    /\ state = Failed
    /\ getStatus.state = Failed

\* C19 (no identifier): the step in which a session creation comes back
\* without identifier ends the run by that error: no instruction is sent, no
\* session is recorded or tracked, nothing is polled, the state and the
\* iteration stay, and the caller is back outside run().
C19_NoIdStopsTheStep ==
  [][\A c \in Callers :
       ( /\ pc[c] = "create"
         /\ lastEvent'.type = "threw"
         /\ lastEvent'.caller = c
         /\ lastEvent'.info = "no session ID returned" ) =>
         /\ instructed' = instructed
         /\ created' = created
         /\ completed' = completed
         /\ managedSessions' = <<>>
         /\ sessionId'[c] = NoSession
         /\ pc'[c] = "idle"
         /\ ~isRunning'
         /\ state' = state
         /\ iteration' = iteration]_vars

\* C19 witness: the Reviewer's session came back without identifier after the
\* Developer's step was done
C19_Witness ==
  /\ lastEvent.type = "threw"
  /\ lastEvent.info = "no session ID returned"
  /\ created = <<Developer>>
  /\ instructed = <<Developer>>
  /\ completed = 1
  /\ state = Reviewing

NextRole(r) ==
  CASE r = Developer -> Reviewer
    [] r = Reviewer -> Arbiter
    [] r = Arbiter -> Developer

\* C20 (strictly sequential): the sessions of a run are created in the cyclic
\* order Developer, Reviewer, Arbiter; a session is asked for only when every
\* session created before it was confirmed complete, so that at most one is
\* being driven; the session asked for in iteration k follows exactly k - 1
\* Arbiter sessions, and the iteration of a run only ever goes up by one.
C20_OneAtATime ==
  /\ \A i \in 1..(Len(created) - 1) : created[i + 1] = NextRole(created[i])
  /\ Len(created) - completed \in {0, 1}
  /\ Len(instructed) <= Len(created)
  /\ \A c \in Callers :
       pc[c] = "create" =>
         /\ completed = Len(created)
         /\ iteration = CountRole(created, Arbiter) + 1
         /\ created # <<>> => step[c] = NextRole(created[Len(created)])

C20_IterationsInOrder ==
  /\ iteration' # iteration =>
       \/ isRunning /\ iteration' = iteration + 1
       \/ ~isRunning /\ iteration' = 1
  /\ Len(created') > Len(created) =>
       /\ Len(created') = Len(created) + 1
       /\ completed = Len(created)

C20_Sequential ==
  /\ []C20_OneAtATime
  /\ [][C20_IterationsInOrder]_vars

\* C20 witness: the second iteration's Developer session is being driven
\* after the three sessions of the first were completed
C20_Witness ==
  /\ created = <<Developer, Reviewer, Arbiter, Developer>>
  /\ completed = 3
  /\ iteration = 2
  /\ \E c \in Callers : pc[c] = "status" /\ step[c] = Developer

(***************************************************************************)
(* The iteration counter, the drive step, the notifications.               *)
(***************************************************************************)
VerdictStep(c) ==
  pc[c] = "verdict" /\ Len(verdicts') = Len(verdicts) + 1

LastVerdict(vs) == vs[Len(vs)]

\* C21 (iteration bump policy): a step that lets a run call past the guard
\* (PastGuard: the call is accepted, whether or not the document is then
\* resolved) sets the iteration to 1; any other step changes it only by +1,
\* and does so
\* exactly when it is an arbiter step whose verdict is NeedsWork and whose
\* next state is Developing: not on Pass, not when the ceiling turns
\* NeedsWork into Complete, not in a Developer's or a Reviewer's step.
PastGuard(c) ==
  pc[c] = "idle" /\ lastEvent'.caller = c /\ lastEvent'.type # "rejected"

C21_BumpStep ==
  /\ \A c \in Callers : PastGuard(c) => iteration' = 1
  /\ (\A c \in Callers : ~PastGuard(c)) =>
       /\ iteration' \in {iteration, iteration + 1}
       /\ iteration' = iteration + 1 <=>
            \E c \in Callers :
              /\ VerdictStep(c)
              /\ LastVerdict(verdicts') = NeedsWork
              /\ state' = Developing
       /\ \A c \in Callers :
            VerdictStep(c) /\ LastVerdict(verdicts') = NeedsWork =>
              IF iteration >= max_iterations
                THEN state' = Complete /\ iteration' = iteration
                ELSE state' = Developing /\ iteration' = iteration + 1

C21_IterationPolicy ==
  [][C21_BumpStep]_vars

\* C21 witness: a run bumped once, then passed in its second iteration
C21_Witness ==
  /\ Settled("success")
  /\ verdicts = <<NeedsWork, Pass>>
  /\ iteration = 2
  /\ max_iterations = 2

Confirmation == <<"o", "k", "?">>
Menu == <<"1", ")", " ", "a", "\n", "2", ")", " ", "o">>
PromptTexts == {Confirmation, Menu}

WaitPcs == {"sleep", "status", "detect", "answer", "abort"}

\* C22 (idle is a completion candidate): when the last text fetched after an
\* idle poll is a prompt, an auto-reply goes to the session ("y" for the
\* confirmation), the step is not complete and the polling goes on, unless
\* the deadline or the auto-answer ceiling ends it; a session is confirmed
\* complete only in a step that fetched, after an idle poll, a last text that
\* is no prompt.
C22_IdleStep ==
  /\ \A c \in Callers, text \in Texts :
       pc[c] = "detect" /\ detect_Resolved(c, text) =>
         IF text \in PromptTexts
           THEN /\ pc'[c] = "answer"
                /\ lastEvent' = Ev("prompt", c, "answer", lastEvent'.text)
                /\ text = Confirmation => lastEvent'.text = <<"y">>
                /\ completed' = completed
                /\ step'[c] = step[c] /\ sessionId'[c] = sessionId[c]
                /\ state' = state
           ELSE /\ completed' = completed + 1
                /\ pc'[c] \in {"create", "verdict", "idle"}
  /\ completed' > completed =>
       /\ completed' = completed + 1
       /\ \E c \in Callers, text \in Texts \ PromptTexts :
            /\ pc[c] = "detect"
            /\ detect_Resolved(c, text)
  /\ \A c \in Callers :
       pc'[c] = "detect" /\ pc[c] # "detect" =>
         /\ pc[c] = "status"
         /\ lastEvent' = Ev("messages", c, lastEvent'.info, <<>>)
         /\ lastEvent'.info \in {"idle", "missing"}
  /\ \A c \in Callers :
       pc[c] = "answer" /\ pc'[c] # "answer" =>
         /\ completed' = completed
         /\ \/ pc'[c] = "sleep" /\ autoAnswerCount'[c] = autoAnswerCount[c] + 1
            \/ pc'[c] = "abort"
            \/ pc'[c] = "idle" /\ lastEvent'.type = "threw"

C23_PollStep ==
  /\ \A c \in Callers, result \in {"busy", "retry"}, expired \in BOOLEAN :
       pc[c] = "status" /\ status_Busy(c, result, expired) =>
         /\ pc'[c] = IF expired THEN "abort" ELSE "sleep"
         /\ lastEvent'.type \in {"sleep", "abort"}
         /\ isRunning'
         /\ state' = state
         /\ completed' = completed
         /\ instructed' = instructed
         /\ autoAnswerCount' = autoAnswerCount
         /\ step'[c] = step[c] /\ sessionId'[c] = sessionId[c]
  /\ \A c \in Callers :
       pc[c] = "status" /\ pc'[c] # "status" =>
         \/ pc'[c] \in {"detect", "sleep", "abort"}
         \/ pc'[c] = "idle" /\ lastEvent' = Ev("threw", c, "status", <<>>)
  /\ \A c \in Callers :
       pc[c] \in WaitPcs /\ pc'[c] \notin WaitPcs =>
         \/ pc[c] = "detect" /\ completed' = completed + 1
         \/ pc[c] = "abort" /\ lastEvent'.type = "threw"
         \/ /\ pc[c] = "answer"
            /\ lastEvent' = Ev("threw", c, "too many auto-answers", <<>>)
         \/ lastEvent' = Ev("threw", c, pc[c], <<>>)

C24_AbortState ==
  /\ aborted # NoSession => aborted = Len(created) /\ completed < Len(created)
  /\ \A c \in Callers :
       pc[c] = "abort" =>
         aborted = sessionId[c] /\ isManagedSession(aborted) /\ isRunning
  /\ lastEvent.type = "threw" /\ lastEvent.info = "timed out" =>
       /\ aborted # NoSession
       /\ ~isRunning
       /\ \A c \in Callers : ~ENABLED create_Resolved(c)

C24_AbortStep ==
  \A c \in Callers :
    /\ pc'[c] = "abort" /\ pc[c] # "abort" =>
         /\ pc[c] \in {"status", "answer"}
         /\ aborted' = sessionId[c]
         /\ lastEvent' = Ev("abort", c, "", <<>>)
    /\ pc[c] = "abort" /\ pc'[c] # "abort" =>
         /\ pc'[c] = "idle"
         /\ lastEvent'.type = "threw"
         /\ lastEvent'.info \in {"timed out", "abort"}
         /\ ~isRunning'
         /\ created' = created
    /\ pc[c] = "send" /\ pc'[c] # "send" =>
         \/ pc'[c] = "sleep" /\ busyPolls'[c] = 0 /\ aborted' = NoSession
         \/ pc'[c] = "idle" /\ lastEvent' = Ev("threw", c, "send", <<>>)

C24_Timeout ==
  /\ []C24_AbortState
  /\ [][C24_AbortStep]_vars

\* C24 witness: the Reviewer's session, the second of the run, timed out
\* after the Developer's was complete
C24_Witness ==
  /\ lastEvent.type = "threw"
  /\ lastEvent.info = "timed out"
  /\ created = <<Developer, Reviewer>>
  /\ completed = 1
  /\ aborted = 2

\* C25 (auto-answer ceiling): within a drive step the auto-answers are
\* counted up, never reset, and kept at 10 at most: the answer that would be
\* counted beyond 10 ends the step, and the run, with the too-many-auto-answers
\* error, and the session is not confirmed complete.
C25_CountState ==
  /\ \A c \in Callers : autoAnswerCount[c] \in 0..maxAutoAnswers
  /\ lastEvent.type = "threw" /\ lastEvent.info = "too many auto-answers" =>
       /\ ~isRunning
       /\ completed < Len(created)

C25_CountStep ==
  \A c \in Callers :
    /\ ( /\ pc[c] = "answer" /\ pc'[c] # "answer"
         /\ lastEvent' # Ev("threw", c, "answer", <<>>) ) =>
         IF autoAnswerCount[c] = maxAutoAnswers
           THEN /\ lastEvent' = Ev("threw", c, "too many auto-answers", <<>>)
                /\ completed' = completed
           ELSE /\ autoAnswerCount'[c] = autoAnswerCount[c] + 1
                /\ pc'[c] \in {"sleep", "abort"}
    /\ autoAnswerCount'[c] # autoAnswerCount[c] =>
         \/ pc[c] = "answer" /\ autoAnswerCount'[c] = autoAnswerCount[c] + 1
         \/ autoAnswerCount'[c] = 0 /\ pc'[c] \in {"create", "idle"}

C25_AutoAnswerCeiling ==
  /\ []C25_CountState
  /\ [][C25_CountStep]_vars

\* C25 witness: the Reviewer's session asked on every idle poll
C25_Witness ==
  /\ lastEvent.type = "threw"
  /\ lastEvent.info = "too many auto-answers"
  /\ created = <<Developer, Reviewer>>
  /\ completed = 1

\* C26 (no premature completion): a step that finds no assistant text for the
\* session after an idle poll does not confirm the session complete.
C26_NoPrematureCompletion ==
  [][\A c \in Callers :
       pc[c] = "detect" /\ detect_Resolved(c, <<>>) =>
         completed' = completed /\ pc'[c] \in WaitPcs]_vars

IsTerminal(u) == u.state \in {Complete, Failed}

\* C29 (progress notifications): the notifications before the role steps name
\* the roles of the sessions in the order of their creation, each with the
\* iteration and the ceiling, and each is given before its session is
\* created; a run that was let past the guard and has ended, by return or by
\* exception, has given exactly one terminal notification, its last.
C29_Notifications ==
  /\ \A i \in 1..Len(created) :
       /\ i <= Len(notified)
       /\ notified[i].role = created[i]
       /\ notified[i].maxIterations = max_iterations
       /\ notified[i].iteration =
            CountRole(SubSeq(created, 1, i - 1), Arbiter) + 1
  /\ \A c \in Callers :
       pc[c] = "create" =>
         /\ Len(notified) = Len(created) + 1
         /\ notified[Len(notified)].role = step[c]
  /\ lastEvent.type \in {"returned", "threw"} =>
       /\ notified # <<>>
       /\ IsTerminal(notified[Len(notified)])
       /\ Cardinality({i \in 1..Len(notified) : IsTerminal(notified[i])}) = 1

(***************************************************************************)
(* The classification of the last text.                                    *)
(***************************************************************************)
IsNumber(answer) ==
  answer # <<>> /\ \A i \in 1..Len(answer) : IsDigit(answer[i])

\* the option written at p: where it ends (0: none is written there) and
\* its number
OptionEnd(text, p) == numberedMatchAt(text, p)
OptionNumber(text, p) == SubSeq(text, p, DigitRunEnd(text, p) - 1)
OptionStarts(text) == {p \in 1..Len(text) : OptionEnd(text, p) # 0}

\* the lines of the text, counted from 0, that hold a whole option
NumberedLines(text) ==
  { Cardinality({q \in 1..(p - 1) : text[q] = "\n"}) :
      p \in {x \in OptionStarts(text) :
               \A q \in x..OptionEnd(text, x) : text[q] # "\n"} }

\* two options, the second written after the end of the first
TwoOptions(text) ==
  \E p1, p2 \in OptionStarts(text) : OptionEnd(text, p1) < p2

\* C27 as stated: a numbered choice is returned only for a text with two or
\* more lines that hold a numbered option, and not for a text with a single
\* such line; the numbered rule goes before the yes/no rule; a text that is
\* neither gives none.
C27_TwoNumberedLines ==
  fnIn.applied =>
    LET text == fnIn.text
        n == Cardinality(NumberedLines(text))
    IN  /\ IsNumber(fnOut) => n >= 2
        /\ n = 1 => ~IsNumber(fnOut)
        /\ n >= 2 => IsNumber(fnOut)
        /\ n < 2 /\ ~confirmPattern(text) => fnOut = <<>>

\* C27 as amended: a numbered choice is returned exactly for a text with two
\* or more numbered options, one written after the end of the other, on
\* separate lines or on the same; a text with one option or none is no
\* numbered choice; the numbered rule goes before the yes/no rule; a text
\* that is neither, the empty text included, gives none.
C27_TwoOptions ==
  fnIn.applied =>
    LET text == fnIn.text
    IN  /\ IsNumber(fnOut) <=> TwoOptions(text)
        /\ ~TwoOptions(text) /\ confirmPattern(text) => fnOut = <<"y">>
        /\ ~TwoOptions(text) /\ ~confirmPattern(text) => fnOut = <<>>
        /\ text = <<>> => fnOut = <<>>

\* C27 witness: two options on one line, followed by a question
C27_Witness ==
  /\ fnIn.applied
  /\ fnIn.text = ConcatPrompt(<<1, 2, 7>>)
  /\ Cardinality(NumberedLines(fnIn.text)) = 1
  /\ confirmPattern(fnIn.text)
  /\ fnOut = <<"2">>

DigitVal(ch) ==
  CASE ch = "0" -> 0 [] ch = "1" -> 1 [] ch = "2" -> 2 [] ch = "3" -> 3
    [] ch = "4" -> 4 [] ch = "5" -> 5 [] ch = "6" -> 6 [] ch = "7" -> 7
    [] ch = "8" -> 8 [] ch = "9" -> 9

RECURSIVE NumVal(_)
NumVal(digits) ==
  IF digits = <<>> THEN 0
  ELSE 10 * NumVal(SubSeq(digits, 1, Len(digits) - 1))
         + DigitVal(digits[Len(digits)])

\* C28 as stated: the reply to a menu is the highest number among the
\* numbered options of the text, in whatever order they are written.
C28_HighestOption ==
  fnIn.applied /\ IsNumber(fnOut) =>
    \A p \in OptionStarts(fnIn.text) :
      NumVal(OptionNumber(fnIn.text, p)) <= NumVal(fnOut)

\* C28 as amended: the reply to a menu is the number of the last numbered
\* option in the order of the text: an option with another one written
\* before it and none written after its end (the highest number when the
\* options are written in ascending order).
C28_LastOption ==
  fnIn.applied /\ IsNumber(fnOut) =>
    LET text == fnIn.text
    IN  \E p \in OptionStarts(text) :
          /\ fnOut = OptionNumber(text, p)
          /\ \E p1 \in OptionStarts(text) : OptionEnd(text, p1) < p
          /\ \A p2 \in OptionStarts(text) : p2 <= OptionEnd(text, p)

\* C28 witness: option 2 written before option 1
C28_Witness ==
  /\ fnIn.applied
  /\ fnIn.text = ConcatPrompt(<<2, 5, 1>>)
  /\ fnOut = <<"1">>

(***************************************************************************)
(* The permission hook.                                                    *)
(***************************************************************************)
\* the sessions created by the run in progress and recorded by it
TrackedNow == IF isRunning THEN {i \in 1..Len(created) : i <= Len(instructed)
                                                          \/ i < Len(created)}
              ELSE {}

\* C30 (permission hook): a call of the hook leaves the decision at "allow"
\* exactly when the request names a session that the run in progress created
\* and tracks at that moment; for every other request, also one naming a
\* session of a run that has ended or naming none, the decision is as the
\* hook found it. The hook changes nothing of the run.
C30_HookStep ==
  \A sessionID \in HookIds, status \in HookStatuses :
    permission_ask(sessionID, status) =>
      /\ fnOut'.status = IF sessionID \in TrackedNow THEN "allow" ELSE status
      /\ ~isRunning => fnOut'.status = status
      /\ sessionID = NoSession => fnOut'.status = status
      /\ UNCHANGED <<fields, locals, history>>

C30_AllowsTrackedOnly ==
  [][C30_HookStep]_vars

\* C30 witness: the first session of the run in progress was allowed while
\* the second was being driven
C30_Witness ==
  /\ isRunning
  /\ Len(created) = 2
  /\ fnIn.sessionID = 1
  /\ fnIn.status = "deny"
  /\ fnOut.status = "allow"

(***************************************************************************)
(* The status query during a run.                                          *)
(***************************************************************************)
\* C31 (active role): whenever a run is in progress, the role the status
\* query reports is the role of the machine state: Developer exactly when
\* Developing, Reviewer exactly when Reviewing, Arbiter exactly when
\* Arbitrating.
C31_RoleFollowsState ==
  isRunning =>
    /\ getStatus.currentRole = Developer <=> state = Developing
    /\ getStatus.currentRole = Reviewer <=> state = Reviewing
    /\ getStatus.currentRole = Arbiter <=> state = Arbitrating

(***************************************************************************)
(* The machine state within a run.                                         *)
(***************************************************************************)
\* the event a finished role step feeds to nextState
StepEvent(r) ==
  CASE r = Developer -> "developmentComplete"
    [] r = Reviewer -> "reviewComplete"
    [] r = Arbiter -> "verdict"

\* C32 (state changes by the table only): a call of run, accepted or not,
\* leaves the state as it is; the step that reads the document assigns the
\* derived state, moved on by startDeveloping when it is Idle; after that
\* the state changes only in the step that ends a role step, and the new
\* state is nextState(old state, the step's event, the verdict just parsed,
\* iteration, max_iterations); a step that throws leaves the state alone.
C32_TableStepOf(c) ==
  /\ pc[c] = "read" /\ pc'[c] # "idle" =>
       LET derived == determineInitialState(storyStatus')
       IN  state' = IF derived = Idle
                      THEN nextState(Idle, "startDeveloping", Undefined,
                                     UndefinedNum, UndefinedNum)
                      ELSE derived
  /\ pc[c] # "read" /\ state' # state =>
       /\ pc[c] \in {"detect", "verdict"}
       /\ step[c] = Arbiter <=> pc[c] = "verdict"
       /\ pc[c] = "verdict" => Len(verdicts') = Len(verdicts) + 1
       /\ state' = nextState(state, StepEvent(step[c]),
                             IF pc[c] = "verdict"
                               THEN verdicts'[Len(verdicts')]
                               ELSE Undefined,
                             iteration, max_iterations)
  /\ lastEvent'.type = "threw" => state' = state

C32_TableStep ==
  /\ \A c \in Active : lastEvent'.type # "rejected" => C32_TableStepOf(c)
  /\ Active = {} \/ lastEvent'.type = "rejected" => state' = state

C32_StateByTableOnly == [][C32_TableStep]_vars

\* C32 witness: in one run the state went through Developing, Reviewing,
\* Arbitrating and, on a NeedsWork verdict below the ceiling, Developing again
C32_Witness ==
  /\ isRunning
  /\ created = <<Developer, Reviewer, Arbiter>>
  /\ verdicts = <<NeedsWork>>
  /\ state = Developing
  /\ iteration = 2

\* C33 (iteration range): in every reachable state the iteration is at least
\* 1 and at most config.max_iterations, whatever the ceiling (1 or more), the
\* verdicts, and the runs made before.
C33_IterationInRange ==
  /\ max_iterations >= 1
  /\ 1 <= iteration
  /\ iteration <= max_iterations

\* C33 witness: a run ended at the ceiling after NeedsWork verdicts in every
\* iteration, the iteration standing at the ceiling
C33_Witness ==
  /\ lastEvent.type = "returned"
  /\ max_iterations = MaxIterationsBound
  /\ Len(verdicts) = max_iterations
  /\ AllNeedsWork
  /\ iteration = max_iterations

(***************************************************************************)
(* The auto-answers of one role step.                                      *)
(***************************************************************************)
\* the auto-answers sent to the session of caller c's role step so far: the
\* ones whose promptAsync has resolved, and the one in flight
AutoAnswersSent(c) ==
  autoAnswerCount[c] + (IF pc[c] = "answer" THEN 1 ELSE 0)

\* C34 (ten auto-replies at most): during one role step no more than
\* maxAutoAnswers auto-answers are sent to the session; the step fails
\* instead of sending one more.
C34_AtMostTenSent ==
  \A c \in Callers : AutoAnswersSent(c) <= maxAutoAnswers

(***************************************************************************)
(* What a poll without an entry for the session leads to.                  *)
(***************************************************************************)
\* caller c's role step has seen one poll answer other than busy and retry,
\* the last one, and that answer carried no entry for the session: no answer
\* was sent yet, and the text is being fetched for that poll
OnlyPollHadNoEntry(c) ==
  /\ pc[c] = "detect"
  /\ autoAnswerCount[c] = 0
  /\ lastEvent = Ev("messages", c, "missing", <<>>)

\* C35 (completion needs an explicit idle): waitForSession returns only if
\* some poll of the step reported the session as idle; a step whose polls
\* were busy, retry or without an entry for the session does not complete.
C35_NoEntryStep ==
  \A c \in Callers : OnlyPollHadNoEntry(c) => completed' = completed

C35_CompletesOnIdleOnly == [][C35_NoEntryStep]_vars

(***************************************************************************)
(* Successive runs on one orchestrator.                                    *)
(***************************************************************************)
\* the state the loop of run() is entered in, for a document status
StartState(status) ==
  LET derived == determineInitialState(status)
  IN  IF derived = Idle
        THEN nextState(Idle, "startDeveloping", Undefined, UndefinedNum,
                       UndefinedNum)
        ELSE derived

\* the first n roles of the cycle Developer, Reviewer, Arbiter from role r on
RECURSIVE RoleCycle(_, _)
RoleCycle(r, n) ==
  IF n = 0 THEN <<>> ELSE <<r>> \o RoleCycle(NextRole(r), n - 1)

\* C36 (successive runs are independent): what a run does is fixed by the
\* document status, the ceiling and the transport's answers, whatever the
\* runs before it left behind.  An accepted run starts from the same values
\* of everything it later reads (iteration 1, nothing tracked, no role step,
\* no session, counts at 0), the state left by the run before being the one
\* exception; the first step of the run overwrites that state with a value
\* computed from the status alone, or the run throws having created nothing;
\* and the sessions created are the cycle of roles from the start state on,
\* with success the only outcome a run returns.
C36_FreshAtStart ==
  \A c \in Callers :
    pc[c] = "read" =>
      /\ isRunning
      /\ iteration = 1
      /\ managedSessions = <<>>
      /\ taskStats = NoStats
      /\ storyPath = currentStoryId
      /\ step[c] = NoStep /\ sessionId[c] = NoSession
      /\ autoAnswerCount[c] = 0 /\ busyPolls[c] = 0
      /\ created = <<>> /\ instructed = <<>> /\ completed = 0
      /\ verdicts = <<>> /\ notified = <<>> /\ aborted = NoSession
      /\ \A d \in Callers \ {c} :
           /\ pc[d] = "idle" /\ step[d] = NoStep /\ sessionId[d] = NoSession
           /\ autoAnswerCount[d] = 0 /\ busyPolls[d] = 0

C36_FirstStep ==
  \A c \in Callers :
    pc[c] = "read" /\ pc'[c] # "read" =>
      IF lastEvent'.type = "threw"
        THEN /\ created' = <<>> /\ notified' = <<>>
             /\ pc'[c] = "idle" /\ ~isRunning'
        ELSE /\ state' = StartState(storyStatus')
             /\ iteration' = 1
             /\ managedSessions' = <<>>
             /\ created' = <<>>
             /\ IF state' = Complete
                  THEN /\ lastEvent' = Ev("returned", c, "success", <<>>)
                       /\ pc'[c] = "idle" /\ ~isRunning'
                  ELSE /\ pc'[c] = "create" /\ step'[c] = RoleOf(state')
                       /\ taskStats' = Stats
                       /\ notified' = <<Update(state', 1, max_iterations,
                                               RoleOf(state'))>>

C36_SameSessions ==
  /\ created # <<>> =>
       /\ storyStatus \in Statuses
       /\ created = RoleCycle(RoleOf(StartState(storyStatus)), Len(created))
  /\ lastEvent.type = "returned" =>
       /\ lastEvent.info = "success"
       /\ state = Complete
       /\ IF StartState(storyStatus) = Complete
            THEN created = <<>>
            ELSE /\ created # <<>> /\ created[Len(created)] = Arbiter
                 /\ Len(verdicts) = CountRole(created, Arbiter)
                 /\ \/ LastVerdict(verdicts) = Pass
                    \/ Len(verdicts) = max_iterations

C36_IndependentRuns ==
  /\ []C36_FreshAtStart
  /\ [][C36_FirstStep]_vars
  /\ []C36_SameSessions

\* C36 witness: a run was accepted on an orchestrator that an earlier run,
\* ended by an exception in its arbiter step, left in Arbitrating
C36_Witness ==
  /\ \E c \in Callers : pc[c] = "read"
  /\ state = Arbitrating
  /\ iteration = 1
  /\ currentStoryId = "2-1"

(***************************************************************************)
(* The event-driven variant: handleEvent, the waits, the timers.           *)
(***************************************************************************)
\* an event that is malformed, that names a session the active run does not
\* track, or whose type is neither session.idle nor session.error
IgnoredEvent(event) ==
  \/ event.shape # "event"
  \/ ~isManagedSession(event.sessionID)
  \/ event.type \notin {"session.idle", "session.error"}

\* C37 (ignored events): handleEvent called with a malformed event, with an
\* event for a session the active run does not track, or with an event of
\* another type than session.idle and session.error resolves and rejects no
\* wait, clears no timer, adds and removes no tracked session and no waiter,
\* and leaves the run where it was.
C37_IgnoredStep ==
  \A event \in Events :
    IgnoredEvent(event) /\ evt_handleEvent(event) =>
      UNCHANGED <<sessionWaiters, timeouts, waits, managedSessions, fields,
                  locals, history, aborted>>

C37_IgnoredEventsChangeNothing == [][C37_IgnoredStep]_vars

\* C37 witness: the last event handled was of another type, for the session
\* the run is waiting for, and the wait is still pending with its timer armed
C37_Witness ==
  /\ pc[1] = "wait"
  /\ fnIn.shape = "event"
  /\ fnIn.type = "message.updated"
  /\ fnIn.sessionID = sessionId[1]
  /\ sessionId[1] \in sessionWaiters
  /\ timeouts[sessionId[1]] = "armed"
  /\ waits[sessionId[1]] = <<>>

\* C38 (each wait settled exactly once): whatever the order of idle events,
\* error events and the timer, the promise of a session's wait gets at most
\* one resolve or reject call; once the session's timer is out of the way
\* (cleared by an event, or fired with its callback over) the wait has been
\* settled: resolved or rejected by the event that cleared the timer,
\* rejected with the timeout after the abort otherwise.
C38_SettledExactlyOnce ==
  \A id \in 1..Len(waits) :
    /\ Len(waits[id]) <= 1
    /\ timeouts[id] \notin {"armed", "aborting"} =>
         /\ Len(waits[id]) = 1
         /\ id \notin sessionWaiters
         /\ timeouts[id] = "cleared" <=>
              waits[id][1] \in {"resolved", "rejected"}
         /\ timeouts[id] # "cleared" => waits[id][1] = "timed out"

\* the timer of session id has fired
TimerFired(id) ==
  id <= Len(timeouts) /\ timeouts[id] \in {"aborting", "done", "died"}

\* C39 (no idle event is lost): once a session.idle event has been delivered
\* for a tracked session, be it before the instruction's send has returned
\* and the wait is registered, the session's role step completes on that
\* event: the timeout timer of the session does not fire and the wait is
\* not rejected with the timeout.
C39_IdleNeverLost ==
  \A id \in idled :
    /\ ~TimerFired(id)
    /\ id <= Len(waits) => waits[id] # <<"timed out">>

====
